---------------------------- MODULE Spec2Model ----------------------------
(***************************************************************************)
(* A model of the movie database loader: scripts/load_movie_data.py (the   *)
(* loader that also merges the Kaggle file) and load_movie_data.py (the    *)
(* basic loader).  One run of main() is one behaviour: the tables are      *)
(* recreated, then the persons, movies and ratings files are loaded, then  *)
(* the Kaggle file is merged.                                              *)
(*                                                                         *)
(* Text is modelled as a sequence of one-character strings, so that        *)
(* strip(), split(), replace(), isdigit(), int() and float() are computed  *)
(* the way Python computes them.  Python's None is the empty tuple <<>>,   *)
(* a present value v is the one-element tuple <<v>>.                       *)
(***************************************************************************)
EXTENDS Integers, Sequences, FiniteSets, TLC

\* ------------------------------------------------------------------ bounds
\* The longest movies, ratings and persons file, in data rows, and the most
\* rows after the first data row of the Kaggle file, that the initial states
\* enumerate.
MaxRows == 2

MaxKaggleRows == 2

\* The longest file of a run that is followed by a second run.
MaxRowsTwice == 1

\* ------------------------------------------------------------- Python text
Digits == {"0", "1", "2", "3", "4", "5", "6", "7", "8", "9"}

\* Characters for which str.isdigit() is true although int() rejects the
\* text: the superscript digits.
SuperDigits == {"^2"}

Whitespace == {" "}

None == <<>>

Some(v) == <<v>>

\* str.strip(): whitespace removed at both ends.
RECURSIVE LStrip(_)
LStrip(s) ==
    IF s # <<>> /\ Head(s) \in Whitespace THEN LStrip(Tail(s)) ELSE s

RECURSIVE RStrip(_)
RStrip(s) ==
    IF s # <<>> /\ s[Len(s)] \in Whitespace
    THEN RStrip(SubSeq(s, 1, Len(s) - 1))
    ELSE s

Strip(s) == RStrip(LStrip(s))

HasPrefix(s, p) == Len(p) <= Len(s) /\ SubSeq(s, 1, Len(p)) = p

\* p in s, for a non-empty p.
RECURSIVE Contains(_, _)
Contains(s, p) ==
    IF Len(s) < Len(p) THEN FALSE
    ELSE HasPrefix(s, p) \/ Contains(Tail(s), p)

\* s.replace(p, ''), for a non-empty p.
RECURSIVE Remove(_, _)
Remove(s, p) ==
    IF s = <<>> THEN <<>>
    ELSE IF HasPrefix(s, p) THEN Remove(SubSeq(s, Len(p) + 1, Len(s)), p)
    ELSE <<Head(s)>> \o Remove(Tail(s), p)

\* The text before / after the first sep of s (all of s / nothing when s
\* holds no sep): the two halves of s.split(sep, 1).
RECURSIVE Before(_, _)
Before(s, sep) ==
    IF s = <<>> \/ Head(s) = sep THEN <<>>
    ELSE <<Head(s)>> \o Before(Tail(s), sep)

RECURSIVE After(_, _)
After(s, sep) ==
    IF s = <<>> THEN <<>>
    ELSE IF Head(s) = sep THEN Tail(s)
    ELSE After(Tail(s), sep)

\* s.split(sep): the pieces between the separators, empty pieces kept;
\* ''.split(sep) is [''].
RECURSIVE Split(_, _)
Split(s, sep) ==
    IF Contains(s, <<sep>>)
    THEN <<Before(s, sep)>> \o Split(After(s, sep), sep)
    ELSE <<s>>

\* str.isdigit(): non-empty and every character a digit.
IsDigit(s) == s # <<>> /\ \A k \in 1..Len(s) : s[k] \in Digits \cup SuperDigits

\* What int() accepts (surrounding whitespace aside): decimal digits only.
IsDecimal(s) == s # <<>> /\ \A k \in 1..Len(s) : s[k] \in Digits

DigitValue(c) ==
    CASE c = "0" -> 0 [] c = "1" -> 1 [] c = "2" -> 2 [] c = "3" -> 3
      [] c = "4" -> 4 [] c = "5" -> 5 [] c = "6" -> 6 [] c = "7" -> 7
      [] c = "8" -> 8 [] c = "9" -> 9

\* int(s) for a text int() accepts.
RECURSIVE ToInt(_)
ToInt(s) ==
    IF s = <<>> THEN 0
    ELSE 10 * ToInt(SubSeq(s, 1, Len(s) - 1)) + DigitValue(s[Len(s)])

\* int(s) raises ValueError unless s, stripped, is decimal digits.
IntRaises(s) == ~IsDecimal(Strip(s))

\* float(s) accepts digits with at most one '.', and at least one digit;
\* the value is kept as <<integer part, fraction digits>>.
IsFloat(s) ==
    LET t == Strip(s)
        a == Before(t, ".")
        b == After(t, ".")
    IN  /\ \A k \in 1..Len(a) : a[k] \in Digits
        /\ \A k \in 1..Len(b) : b[k] \in Digits
        /\ Len(a) + Len(b) > 0

FloatRaises(s) == ~IsFloat(s)

ToFloat(s) ==
    LET t == Strip(s) IN <<ToInt(Before(t, ".")), After(t, ".")>>

\* The elements of a sequence.
Range(q) == {q[k] : k \in 1..Len(q)}

\* The sequences that hold each element of S exactly once: the orders in
\* which a Python set may be iterated.
RECURSIVE Orders(_)
Orders(S) ==
    IF S = {} THEN {<<>>}
    ELSE UNION {{<<x>> \o q : q \in Orders(S \ {x})} : x \in S}

\* f with key k bound to v.
Put(f, k, v) == [x \in DOMAIN f \cup {k} |-> IF x = k THEN v ELSE f[x]]

MaxOf(S) == CHOOSE x \in S : \A y \in S : y <= x

\* ------------------------------------------------------------------- dates
IsLeap(y) == (y % 4 = 0 /\ y % 100 # 0) \/ y % 400 = 0

DaysIn(y, m) ==
    IF m = 2 THEN (IF IsLeap(y) THEN 29 ELSE 28)
    ELSE IF m \in {4, 6, 9, 11} THEN 30 ELSE 31

\* datetime.strptime(s, '%Y-%m-%d') succeeds: four digits of year (at least
\* year 1), one or two of month and of day, a day the month has.
IsDate(s) ==
    LET p == Split(s, "-") IN
    /\ Len(p) = 3
    /\ IsDecimal(p[1]) /\ Len(p[1]) = 4 /\ ToInt(p[1]) >= 1
    /\ IsDecimal(p[2]) /\ Len(p[2]) <= 2 /\ ToInt(p[2]) \in 1..12
    /\ IsDecimal(p[3]) /\ Len(p[3]) <= 2
    /\ ToInt(p[3]) \in 1..DaysIn(ToInt(p[1]), ToInt(p[2]))

\* The date strptime returns, as <<year, month, day>>.
ToDate(s) ==
    LET p == Split(s, "-") IN <<ToInt(p[1]), ToInt(p[2]), ToInt(p[3])>>

\* ------------------------------------------------------------------- state
VARIABLES
    variant,        \* "scripts": scripts/load_movie_data.py; "basic": load_movie_data.py
    foreign_keys,   \* whether the schema script declares FOREIGN KEY constraints
                    \* (main turns their enforcement on)
    persons_csv,    \* the rows of Persons.csv
    movies_csv,     \* the rows of Movies.csv
    ratings_csv,    \* the rows of Ratings.csv
    kaggle_csv,     \* the data rows of imdb_top_1000.csv
    pc,             \* where main() stands
    i,              \* the number of rows the current loop has consumed
    reg,            \* the collections of the running load_* function
    db,             \* the tables as the connection sees them
    committed,      \* the tables as of the last commit
    exc,            \* the exception in flight ("none" when there is none)
    closes,         \* how often conn.close() ran
    run,            \* which run of main() this is
    first_db        \* the tables the first run left behind

vars ==
    <<variant, foreign_keys, persons_csv, movies_csv, ratings_csv, kaggle_csv,
      pc, i, reg, db, committed, exc, closes, run, first_db>>

inputs == <<variant, foreign_keys, persons_csv, movies_csv, ratings_csv, kaggle_csv>>

\* ----------------------------------------------------------------- storage
\* The tables movie_schema.sql creates, empty.  A reference table maps the
\* natural key to the rest of the row; a join table is a set of pairs.
EmptyDb ==
    [ language |-> <<>>, country |-> <<>>, genre |-> <<>>,
      production_company |-> <<>>, director |-> <<>>, person |-> <<>>,
      movie |-> <<>>, user |-> {}, rating |-> <<>>,
      movie_genre |-> {}, movie_production_company |-> {},
      production_country |-> {}, movie_spoken_language |-> {},
      movie_director |-> {}, movie_cast |-> {} ]

EmptyReg ==
    [ genres_set |-> {}, languages_dict |-> <<>>, countries_dict |-> <<>>,
      companies_set |-> {}, directors_set |-> {}, actors_set |-> {} ]

\* A connection in the middle of a function: its tables, what it committed,
\* and the exception raised so far; a statement after a raise does not run.
Session(d, c) == [db |-> d, committed |-> c, exc |-> "none"]

Raise(st, e) == IF st.exc = "none" THEN [st EXCEPT !.exc = e] ELSE st

\* conn.commit()
Commit(st) == IF st.exc = "none" THEN [st EXCEPT !.committed = st.db] ELSE st

\* The id an INTEGER PRIMARY KEY column gives a new row: one more than the
\* largest in the table.
NextRowId(tbl) ==
    IF DOMAIN tbl = {} THEN 1 ELSE MaxOf({tbl[k] : k \in DOMAIN tbl}) + 1

\* The primary keys of a reference table, as join rows refer to them.
Keys(d, table) ==
    IF table \in {"language", "country", "movie"} THEN DOMAIN d[table]
    ELSE IF table = "person" /\ variant = "basic" THEN DOMAIN d.person
    ELSE {d[table][k] : k \in DOMAIN d[table]}

\* INSERT OR IGNORE INTO language / country (code, name): a code already
\* stored keeps its row.
InsertCoded(st, table, code, name) ==
    IF st.exc # "none" \/ code \in DOMAIN st.db[table] THEN st
    ELSE [st EXCEPT !.db[table] = Put(@, code, name)]

\* An INSERT OR REPLACE: a name already stored gets a new row and a new id.
InsertNamed_Replace(st, table, name) ==
    IF st.exc # "none" THEN st
    ELSE [st EXCEPT !.db[table] = Put(@, name, NextRowId(@))]

\* INSERT OR IGNORE INTO genre / production_company / director / person
\* (name): a name already stored keeps its row and its id.
InsertNamed(st, table, name) ==
    IF st.exc # "none" \/ name \in DOMAIN st.db[table] THEN st
    ELSE [st EXCEPT !.db[table] = Put(@, name, NextRowId(@))]

\* An INSERT OR REPLACE INTO movie: a movie_id already stored gets the new
\* row.
InsertMovie_Replace(st, movie_id, rec) ==
    IF st.exc # "none" THEN st
    ELSE IF /\ foreign_keys
            /\ rec.original_language_code # None
            /\ rec.original_language_code[1] \notin DOMAIN st.db.language
    THEN Raise(st, "IntegrityError")
    ELSE [st EXCEPT !.db.movie = Put(@, movie_id, rec)]

\* INSERT OR IGNORE INTO movie: a movie_id already stored keeps its row; with
\* foreign keys declared a language code that is not NULL must be stored.
InsertMovie(st, movie_id, rec) ==
    IF st.exc # "none" \/ movie_id \in DOMAIN st.db.movie THEN st
    ELSE IF /\ foreign_keys
            /\ rec.original_language_code # None
            /\ rec.original_language_code[1] \notin DOMAIN st.db.language
    THEN Raise(st, "IntegrityError")
    ELSE [st EXCEPT !.db.movie = Put(@, movie_id, rec)]

\* INSERT OR IGNORE INTO <join table> (movie_id, key): a pair already stored
\* is kept; with foreign keys declared both ends must be stored.
InsertJoin(st, table, movie_id, key, target) ==
    IF st.exc # "none" \/ <<movie_id, key>> \in st.db[table] THEN st
    ELSE IF /\ foreign_keys
            /\ ~(movie_id \in DOMAIN st.db.movie /\ key \in Keys(st.db, target))
    THEN Raise(st, "IntegrityError")
    ELSE [st EXCEPT !.db[table] = @ \cup {<<movie_id, key>>}]

\* INSERT OR IGNORE INTO user (user_id)
InsertUser(st, user_id) ==
    IF st.exc # "none" THEN st
    ELSE [st EXCEPT !.db.user = @ \cup {user_id}]

\* INSERT OR IGNORE INTO rating: keyed by user and movie; with foreign keys
\* declared the user and the movie must be stored.
InsertRating(st, user_id, movie_id, rec) ==
    IF st.exc # "none" \/ <<user_id, movie_id>> \in DOMAIN st.db.rating THEN st
    ELSE IF /\ foreign_keys
            /\ ~(user_id \in st.db.user /\ movie_id \in DOMAIN st.db.movie)
    THEN Raise(st, "IntegrityError")
    ELSE [st EXCEPT !.db.rating = Put(@, <<user_id, movie_id>>, rec)]

\* SELECT <id> FROM <table> WHERE <name column> = ? ; fetchone()
Lookup(d, table, name) ==
    IF name \in DOMAIN d[table] THEN Some(d[table][name]) ELSE None

\* ------------------------------------------------- flushing the registries
Unknown == <<"U", "n", "k", "n", "o", "w", "n">>

\* A flush that stores the label as the registry holds it, the empty text
\* for None.
RECURSIVE InsertAllCoded_AsIs(_, _, _, _)
InsertAllCoded_AsIs(st, table, dict, codes) ==
    IF codes = {} THEN st
    ELSE LET code == CHOOSE c \in codes : TRUE
             name == IF dict[code] = None THEN <<>> ELSE dict[code][1]
             st1 == IF code # <<>> THEN InsertCoded(st, table, code, name)
                    ELSE st
         IN  InsertAllCoded_AsIs(st1, table, dict, codes \ {code})

\* load_languages / load_countries: every code that is not blank is stored,
\* under 'Unknown' when its label is None or blank; then one commit.
RECURSIVE InsertAllCoded(_, _, _, _)
InsertAllCoded(st, table, dict, codes) ==
    IF codes = {} THEN st
    ELSE LET code == CHOOSE c \in codes : TRUE
             name == IF dict[code] \in {None, Some(<<>>)}
                     THEN Unknown ELSE dict[code][1]
             st1 == IF code # <<>> THEN InsertCoded(st, table, code, name)
                    ELSE st
         IN  InsertAllCoded(st1, table, dict, codes \ {code})

load_languages(st, languages) ==
    Commit(InsertAllCoded(st, "language", languages, DOMAIN languages))

load_countries(st, countries) ==
    Commit(InsertAllCoded(st, "country", countries, DOMAIN countries))

\* load_genres / load_production_companies / load_directors / load_persons:
\* every name that is not blank is stored, in the order the set is iterated;
\* then one commit.
RECURSIVE InsertAllNamed(_, _, _)
InsertAllNamed(st, table, order) ==
    IF order = <<>> THEN st
    ELSE LET st1 == IF Head(order) # <<>>
                    THEN InsertNamed(st, table, Head(order)) ELSE st
         IN  InsertAllNamed(st1, table, Tail(order))

load_named(st, table, order) == Commit(InsertAllNamed(st, table, order))

\* The orders in which load_* may iterate the set names.  Only the order of
\* the names that get a new row decides the outcome, so the others (blank,
\* or stored already) are put last in one order.
IterationOrders(d, table, names) ==
    LET fresh == {n \in names : n # <<>> /\ n \notin DOMAIN d[table]}
        rest == CHOOSE q \in Orders(names \ fresh) : TRUE
    IN  {q \o rest : q \in Orders(fresh)}

\* ------------------------------------------------ the original movies file
\* A cell as load_movies and load_ratings read it: stripped by
\* scripts/load_movie_data.py, as it stands by load_movie_data.py.
Cell(row, col) == IF variant = "scripts" THEN Strip(row[col]) ELSE row[col]

\* The entries of a multi-valued cell: none for an empty cell.
Entries(cell, sep) == IF cell = <<>> THEN <<>> ELSE Split(cell, sep)

\* A registry that keeps the label it holds for a code already registered.
RegisterCode_KeepFirst(dict, code, name) ==
    IF code \in DOMAIN dict THEN dict ELSE Put(dict, code, name)

\* languages_dict[code] = name
RegisterCode(dict, code, name) == Put(dict, code, name)

\* The loop over the entries of a coded cell in pass 1: an entry holding no
\* '-' is not registered.
RECURSIVE RegisterEntries(_, _)
RegisterEntries(dict, entries) ==
    IF entries = <<>> THEN dict
    ELSE LET e == Head(entries)
             d1 == IF Contains(e, <<"-">>)
                   THEN RegisterCode(dict, Before(e, "-"), Some(After(e, "-")))
                   ELSE dict
         IN  RegisterEntries(d1, Tail(entries))

\* The original-language cell in pass 1: registered with its label, or with
\* None when it holds no '-'.
RegisterOriginal(dict, ol) ==
    IF ol = <<>> THEN dict
    ELSE IF Contains(ol, <<"-">>)
    THEN RegisterCode(dict, Before(ol, "-"), Some(After(ol, "-")))
    ELSE RegisterCode(dict, ol, None)

\* One row of pass 1 of load_movies.
CollectMovieRow(r, row) ==
    [ r EXCEPT
        !.languages_dict =
            RegisterEntries(RegisterOriginal(@, Cell(row, "OriginalLanguage")),
                            Entries(Cell(row, "SpokenLanguages"), "|")),
        !.countries_dict =
            RegisterEntries(@, Entries(Cell(row, "ProductionCountries"), "|")),
        !.genres_set = @ \cup Range(Entries(Cell(row, "Genres"), "|")),
        !.companies_set =
            @ \cup Range(Entries(Cell(row, "ProductionCompanies"), "|")) ]

\* text or None
OrNone(s) == IF s = <<>> THEN None ELSE Some(s)

\* The columns of a movie row the original dataset does not fill.
KaggleColumnsNull ==
    [ imdb_rating |-> None, meta_score |-> None, overview |-> None,
      certificate |-> None, no_of_votes |-> None, gross_revenue |-> None ]

\* lang_code of pass 2.
LangCode(ol) ==
    IF ol = <<>> THEN None
    ELSE IF Contains(ol, <<"-">>) THEN Some(Before(ol, "-")) ELSE Some(ol)

\* Whether pass 2 skips the row: scripts/load_movie_data.py skips a MovieID
\* that is not isdigit(); load_movie_data.py skips nothing.
SkipsMovieRow(row) == variant = "scripts" /\ ~IsDigit(Cell(row, "MovieID"))

\* Whether reading the row's own fields raises ValueError, before anything
\* is written for it: int() and float() are called bare; the runtime is
\* guarded by isdigit() and the date by try/except in scripts/ only.
MovieRowRaises(row) ==
    IF variant = "scripts"
    THEN \/ IntRaises(Cell(row, "MovieID"))
         \/ Cell(row, "Budget") # <<>> /\ FloatRaises(Cell(row, "Budget"))
         \/ Cell(row, "Revenue") # <<>> /\ FloatRaises(Cell(row, "Revenue"))
         \/ IsDigit(Cell(row, "Runtime")) /\ IntRaises(Cell(row, "Runtime"))
    ELSE \/ IntRaises(row.MovieID)
         \/ row.Budget # <<>> /\ FloatRaises(row.Budget)
         \/ row.Revenue # <<>> /\ FloatRaises(row.Revenue)
         \/ row.Runtime # <<>> /\ IntRaises(row.Runtime)
         \/ row.ReleaseDate # <<>> /\ ~IsDate(row.ReleaseDate)

\* The movie row pass 2 builds from a row whose fields it could read.
MovieRecord(row) ==
    LET budget == Cell(row, "Budget")
        revenue == Cell(row, "Revenue")
        runtime == Cell(row, "Runtime")
        date == Cell(row, "ReleaseDate")
        scripts == variant = "scripts"
    IN  [ original_language_code |-> LangCode(Cell(row, "OriginalLanguage")),
          original_title |-> IF scripts THEN OrNone(Cell(row, "OriginalTitle"))
                             ELSE Some(row.OriginalTitle),
          english_title |-> IF scripts THEN OrNone(Cell(row, "EnglishTitle"))
                            ELSE Some(row.EnglishTitle),
          budget |-> IF budget = <<>> THEN None ELSE Some(ToFloat(budget)),
          revenue |-> IF revenue = <<>> THEN None ELSE Some(ToFloat(revenue)),
          homepage |-> IF scripts THEN OrNone(Cell(row, "Homepage"))
                       ELSE Some(row.Homepage),
          runtime |-> IF (scripts /\ IsDigit(runtime)) \/ (~scripts /\ runtime # <<>>)
                      THEN Some(ToInt(Strip(runtime))) ELSE None,
          release_date |-> IF date # <<>> /\ IsDate(date)
                           THEN Some(ToDate(date)) ELSE None ]
        @@ KaggleColumnsNull

\* A lookup whose result is used without the test for a row found.
LinkOne_NotFoundRaises(st, join, target, movie_id, name) ==
    LET result == Lookup(st.db, target, name) IN
    IF st.exc # "none" THEN st
    ELSE IF result = None THEN Raise(st, "TypeError")
    ELSE InsertJoin(st, join, movie_id, result[1], target)

\* One name of a multi-valued cell in pass 2: the id is looked up, and the
\* join row is written when there is one.
LinkOne(st, join, target, movie_id, name) ==
    LET result == Lookup(st.db, target, name) IN
    IF st.exc # "none" \/ result = None THEN st
    ELSE InsertJoin(st, join, movie_id, result[1], target)

RECURSIVE LinkNames(_, _, _, _, _)
LinkNames(st, join, target, movie_id, names) ==
    IF names = <<>> THEN st
    ELSE LinkNames(LinkOne(st, join, target, movie_id, Head(names)),
                   join, target, movie_id, Tail(names))

\* The entries of a coded cell in pass 2: the join row of every entry that
\* holds a '-' is written, with no lookup.
RECURSIVE LinkCodes(_, _, _, _, _)
LinkCodes(st, join, target, movie_id, entries) ==
    IF entries = <<>> THEN st
    ELSE LET e == Head(entries)
             st1 == IF Contains(e, <<"-">>)
                    THEN InsertJoin(st, join, movie_id, Before(e, "-"), target)
                    ELSE st
         IN  LinkCodes(st1, join, target, movie_id, Tail(entries))

\* The cast ids of a row of load_movie_data.py: every one is written to
\* movie_cast as it stands.
RECURSIVE LinkCast(_, _, _)
LinkCast(st, movie_id, cast_ids) ==
    IF cast_ids = <<>> THEN st
    ELSE LinkCast(InsertJoin(st, "movie_cast", movie_id, Head(cast_ids), "person"),
                  movie_id, Tail(cast_ids))

\* One row of pass 2 of load_movies.
InsertMovieRow(st, row) ==
    IF SkipsMovieRow(row) THEN st
    ELSE IF MovieRowRaises(row) THEN Raise(st, "ValueError")
    ELSE
    LET movie_id == ToInt(Strip(row.MovieID))
        s1 == InsertMovie(st, movie_id, MovieRecord(row))
        s2 == LinkNames(s1, "movie_genre", "genre", movie_id,
                        Entries(Cell(row, "Genres"), "|"))
        s3 == LinkNames(s2, "movie_production_company", "production_company",
                        movie_id, Entries(Cell(row, "ProductionCompanies"), "|"))
        s4 == LinkCodes(s3, "production_country", "country", movie_id,
                        Entries(Cell(row, "ProductionCountries"), "|"))
        s5 == LinkCodes(s4, "movie_spoken_language", "language", movie_id,
                        Entries(Cell(row, "SpokenLanguages"), "|"))
    IN  IF variant = "scripts" THEN s5
        ELSE LinkCast(s5, movie_id, Entries(row.CastID, "|"))

\* ----------------------------------------------------------- persons file
\* load_original_persons: the distinct names, stripped, blank ones left out.
PersonNames(rows) ==
    {Strip(rows[k].Name) : k \in 1..Len(rows)} \ {<<>>}

\* Whether a row of Persons.csv makes load_movie_data.py raise: a gender
\* that isdigit() accepts and int() rejects.
PersonRowRaises(row) == IsDigit(row.Gender) /\ IntRaises(row.Gender)

\* load_persons of load_movie_data.py, row by row: a row with a cast id and
\* a name is stored under its cast id.
RECURSIVE InsertPersonRows(_, _)
InsertPersonRows(st, rows) ==
    IF rows = <<>> \/ st.exc # "none" THEN st
    ELSE LET row == Head(rows)
             gender == IF IsDigit(row.Gender) THEN Some(ToInt(row.Gender))
                       ELSE None
             st1 == IF PersonRowRaises(row) THEN Raise(st, "ValueError")
                    ELSE IF row.CastID # <<>> /\ row.Name # <<>>
                    THEN InsertCoded(st, "person", row.CastID,
                                     [name |-> row.Name, gender |-> gender])
                    ELSE st
         IN  InsertPersonRows(st1, Tail(rows))

\* ----------------------------------------------------------- ratings file
\* Whether load_ratings skips the row: scripts/load_movie_data.py wants a
\* user id and a movie id that are isdigit() and a rating that is not blank;
\* load_movie_data.py skips nothing.
SkipsRatingRow(row) ==
    /\ variant = "scripts"
    /\ ~(/\ IsDigit(Strip(row.UserID))
         /\ IsDigit(Strip(row.MovieID))
         /\ Strip(row.Rating) # <<>>)

\* Whether reading the row raises ValueError: int() and float() are called
\* bare in both loaders, strptime() is guarded in scripts/ only.
RatingRowRaises(row) ==
    \/ IntRaises(row.UserID)
    \/ IntRaises(row.MovieID)
    \/ FloatRaises(row.Rating)
    \/ variant = "basic" /\ ~IsDate(row.Date)

\* A load_ratings that stores the user of a row before it validates it.
InsertRatingRow_UserFirst(st, row) ==
    LET user_id == ToInt(Strip(row.UserID))
        st0 == IF IsDecimal(Strip(row.UserID)) THEN InsertUser(st, user_id)
               ELSE st
    IN  IF SkipsRatingRow(row) THEN st0
        ELSE IF RatingRowRaises(row) THEN Raise(st0, "ValueError")
        ELSE
        LET movie_id == ToInt(Strip(row.MovieID))
            date == Cell(row, "Date")
            rec == [ rating |-> ToFloat(row.Rating),
                     rating_date |-> IF IsDate(date) THEN Some(ToDate(date))
                                     ELSE None ]
        IN  InsertRating(st0, user_id, movie_id, rec)

\* One row of load_ratings.
InsertRatingRow(st, row) ==
    IF SkipsRatingRow(row) THEN st
    ELSE IF RatingRowRaises(row) THEN Raise(st, "ValueError")
    ELSE
    LET user_id == ToInt(Strip(row.UserID))
        movie_id == ToInt(Strip(row.MovieID))
        date == Cell(row, "Date")
        rec == [ rating |-> ToFloat(row.Rating),
                 rating_date |-> IF IsDate(date) THEN Some(ToDate(date))
                                 ELSE None ]
    IN  InsertRating(InsertUser(st, user_id), user_id, movie_id, rec)

\* ------------------------------------------------------------ Kaggle file
\* The columns of imdb_top_1000.csv the loader reads, in file order.
KaggleColumns ==
    << "Series_Title", "Released_Year", "Certificate", "Runtime", "Genre",
       "IMDB_Rating", "Overview", "Meta_score", "Director",
       "Star1", "Star2", "Star3", "Star4", "No_of_Votes", "Gross" >>

\* A cell whose text is a column's name (the text is kept as one element).
HeaderCell(col) == <<col>>

\* row.get(col, '').strip() in pass 1: the reader took the file's header
\* line for the column names.
Get1(row, col) == Strip(row[col])

\* row.get(col, '') in pass 2.  After f.seek(0) and next(f) the new reader
\* takes the first data row for the column names: a column is found under
\* the text that row holds in it (the last such column wins), and a name
\* that row does not hold is missing from every row.
Get2Raw(first, row, col) ==
    LET hits == {p \in 1..Len(KaggleColumns) :
                    first[KaggleColumns[p]] = HeaderCell(col)}
    IN  IF hits = {} THEN <<>> ELSE row[KaggleColumns[MaxOf(hits)]]

Get2(first, row, col) == Strip(Get2Raw(first, row, col))

\* genre_list = [g.strip() for g in genres.split(',')]
RECURSIVE StripAll(_)
StripAll(q) ==
    IF q = <<>> THEN <<>> ELSE <<Strip(Head(q))>> \o StripAll(Tail(q))

GenreList(cell) == StripAll(Entries(cell, ","))

\* filter(None, stars)
Stars(star1, star2, star3, star4) ==
    SelectSeq(<<star1, star2, star3, star4>>, LAMBDA x : x # <<>>)

\* One row of pass 1 of load_kaggle_data.
CollectKaggleRow(r, row) ==
    LET get(col) == Get1(row, col) IN
    [ r EXCEPT
        !.directors_set = IF get("Director") # <<>>
                          THEN @ \cup {get("Director")} ELSE @,
        !.actors_set = @ \cup Range(Stars(get("Star1"), get("Star2"),
                                           get("Star3"), get("Star4"))),
        !.genres_set = @ \cup Range(GenreList(get("Genre"))) ]

\* A match against either title of a stored movie.
TitleExists_EitherTitle(d, title) ==
    \E m \in DOMAIN d.movie :
        \/ d.movie[m].original_title = Some(title)
        \/ d.movie[m].english_title = Some(title)

\* SELECT movie_id FROM movie WHERE original_title = ? finds a row.
TitleExists(d, title) ==
    \E m \in DOMAIN d.movie : d.movie[m].original_title = Some(title)

\* An allocation that takes the smallest id no movie holds.
NextMovieId_FirstFree(d) ==
    CHOOSE n \in 1..(Cardinality(DOMAIN d.movie) + 1) : n \notin DOMAIN d.movie

\* SELECT MAX(movie_id) FROM movie, then movie_id + 1 if movie_id else 1.
NextMovieId(d) ==
    LET max_id == IF DOMAIN d.movie = {} THEN None
                  ELSE Some(MaxOf(DOMAIN d.movie))
    IN  IF max_id # None /\ max_id[1] # 0 THEN max_id[1] + 1 ELSE 1

\* A pass 2 that skips a blank title only.
SkipsKaggleRow_BlankOnly(d, first, row) ==
    Get2(first, row, "Series_Title") = <<>>

\* Whether pass 2 skips the row: a blank title, or a title already stored.
SkipsKaggleRow(d, first, row) ==
    \/ Get2(first, row, "Series_Title") = <<>>
    \/ TitleExists(d, Get2(first, row, "Series_Title"))

Min == <<"m", "i", "n">>

NA == <<"N", "A">>

\* Whether reading the row's fields raises ValueError: the runtime's int()
\* and the vote count's int() are called bare.
KaggleRowRaises(first, row) ==
    LET runtime == Get2(first, row, "Runtime")
        votes == Strip(Remove(Get2Raw(first, row, "No_of_Votes"), <<",">>))
    IN  \/ Contains(runtime, Min) /\ IntRaises(Remove(runtime, Min))
        \/ IsDigit(votes) /\ IntRaises(votes)

\* The movie row pass 2 builds from a row whose fields it could read.
KaggleRecord(first, row) ==
    LET get(col) == Get2(first, row, col)
        runtime == get("Runtime")
        year == get("Released_Year")
        jan1 == year \o <<"-", "0", "1", "-", "0", "1">>
        votes == Strip(Remove(Get2Raw(first, row, "No_of_Votes"), <<",">>))
        gross == Strip(Remove(Remove(Get2Raw(first, row, "Gross"), <<",">>),
                              <<"$">>))
    IN  [ original_language_code |-> None,
          original_title |-> Some(get("Series_Title")),
          english_title |-> None, budget |-> None, revenue |-> None,
          homepage |-> None,
          imdb_rating |-> IF get("IMDB_Rating") # <<>> /\ IsFloat(get("IMDB_Rating"))
                          THEN Some(ToFloat(get("IMDB_Rating"))) ELSE None,
          meta_score |-> IF IsDecimal(get("Meta_score"))
                         THEN Some(ToInt(get("Meta_score"))) ELSE None,
          overview |-> OrNone(get("Overview")),
          certificate |-> OrNone(get("Certificate")),
          runtime |-> IF Contains(runtime, Min)
                      THEN Some(ToInt(Strip(Remove(runtime, Min)))) ELSE None,
          release_date |-> IF IsDigit(year) /\ IsDate(jan1)
                           THEN Some(ToDate(jan1)) ELSE None,
          no_of_votes |-> IF IsDigit(votes) THEN Some(ToInt(votes)) ELSE None,
          gross_revenue |-> IF gross # <<>> /\ gross # NA /\ IsFloat(gross)
                            THEN Some(ToFloat(gross)) ELSE None ]

\* One row of pass 2 of load_kaggle_data.
InsertKaggleRow(st, first, row) ==
    IF SkipsKaggleRow(st.db, first, row) THEN st
    ELSE IF KaggleRowRaises(first, row) THEN Raise(st, "ValueError")
    ELSE
    LET get(col) == Get2(first, row, col)
        movie_id == NextMovieId(st.db)
        s1 == InsertMovie(st, movie_id, KaggleRecord(first, row))
        s2 == LinkNames(s1, "movie_genre", "genre", movie_id,
                        GenreList(get("Genre")))
        s3 == IF get("Director") # <<>>
              THEN LinkOne(s2, "movie_director", "director", movie_id,
                           get("Director"))
              ELSE s2
    IN  LinkNames(s3, "movie_cast", "person", movie_id,
                  Stars(get("Star1"), get("Star2"), get("Star3"), get("Star4")))

\* ------------------------------------------------------------------ inputs
\* The files the initial states enumerate.  Each family varies one file over
\* every sequence of its rows up to the bound and holds the others fixed.
SeqsUpTo(S, n) == UNION {[1..k -> S] : k \in 0..n}

MovieBase ==
    [ MovieID |-> <<"1">>, OriginalLanguage |-> <<"e", "-", "E">>,
      OriginalTitle |-> <<"T">>, EnglishTitle |-> <<"T">>,
      Budget |-> <<>>, Revenue |-> <<>>, Homepage |-> <<>>, Runtime |-> <<>>,
      ReleaseDate |-> <<>>, Genres |-> <<"A">>, ProductionCompanies |-> <<>>,
      ProductionCountries |-> <<>>, SpokenLanguages |-> <<>>, CastID |-> <<>> ]

Date1 == <<"2", "0", "0", "1", "-", "0", "2", "-", "0", "3">>

MovieRows ==
    { MovieBase,
      [MovieBase EXCEPT !.MovieID = <<"2">>, !.OriginalLanguage = <<"e">>,
                        !.Genres = <<"A", "|", "B">>,
                        !.SpokenLanguages = <<"e", "-", "F", "|", "f", "-">>,
                        !.Budget = <<"1", ".", "5">>, !.Runtime = <<"9">>,
                        !.ReleaseDate = Date1],
      [MovieBase EXCEPT !.MovieID = <<"x">>, !.Genres = <<"B">>],
      [MovieBase EXCEPT !.MovieID = <<"2">>, !.Genres = <<"A", "|", "|", "B">>,
                        !.ProductionCompanies = <<"|", "C">>],
      [MovieBase EXCEPT !.OriginalTitle = <<"O">>, !.Genres = <<"B">>,
                        !.OriginalLanguage = <<"e", "-">>,
                        !.ProductionCountries = <<"u", "-", "U">>],
      [MovieBase EXCEPT !.MovieID = <<"2">>, !.Budget = <<"x">>],
      [MovieBase EXCEPT !.MovieID = <<"2">>,
                        !.ProductionCountries = <<"-", "U">>],
      [MovieBase EXCEPT !.MovieID = <<"2">>, !.SpokenLanguages = <<"e">>,
                        !.ProductionCountries = <<"u">>,
                        !.OriginalTitle = <<>>, !.EnglishTitle = <<"T">>,
                        !.Runtime = <<"x">>, !.ReleaseDate = <<"b">>],
      [MovieBase EXCEPT !.MovieID = <<"2">>, !.Genres = <<" ", "A", "|", " ", "B">>,
                        !.CastID = <<"7", "|", "8">>] }

PersonRows ==
    { [Name |-> <<"P">>, CastID |-> <<"7">>, Gender |-> <<"1">>],
      [Name |-> <<" ", "Q">>, CastID |-> <<"8">>, Gender |-> <<>>],
      [Name |-> <<>>, CastID |-> <<"9">>, Gender |-> <<"x">>] }

RatingBase ==
    [UserID |-> <<"1">>, MovieID |-> <<"1">>, Rating |-> <<"4", ".", "5">>,
     Date |-> Date1]

RatingRows ==
    { RatingBase,
      [RatingBase EXCEPT !.UserID = <<"2">>, !.Date = <<"b">>],
      [RatingBase EXCEPT !.UserID = <<"x">>],
      [RatingBase EXCEPT !.MovieID = <<"x">>],
      [RatingBase EXCEPT !.Rating = <<>>],
      [RatingBase EXCEPT !.Rating = <<"x">>],
      [RatingBase EXCEPT !.MovieID = <<"9">>],
      [RatingBase EXCEPT !.Rating = <<"3">>, !.Date = <<>>] }

\* A first data row that repeats the header line, the last two star
\* columns left empty.
KaggleHeader ==
    [c \in Range(KaggleColumns) |->
        IF c \in {"Star3", "Star4"} THEN <<>> ELSE HeaderCell(c)]

KaggleBase ==
    [ Series_Title |-> <<"T">>, Released_Year |-> <<"1", "9", "9", "9">>,
      Certificate |-> <<"A">>, Runtime |-> <<"9", " ", "m", "i", "n">>,
      Genre |-> <<"A">>, IMDB_Rating |-> <<"8", ".", "5">>,
      Overview |-> <<>>, Meta_score |-> <<"8", "0">>, Director |-> <<"D">>,
      Star1 |-> <<"P">>, Star2 |-> <<>>, Star3 |-> <<>>, Star4 |-> <<>>,
      No_of_Votes |-> <<"1", ",", "0", "0", "0">>,
      Gross |-> <<"$", "1", ",", "0", "0", "0">> ]

KaggleRows ==
    { KaggleBase,
      [KaggleBase EXCEPT !.Series_Title = <<"N">>, !.Star2 = <<"Q">>,
                         !.Genre = <<"A", ",", ",", " ", "B">>],
      [KaggleBase EXCEPT !.Series_Title = <<"N">>, !.Director = <<"G">>,
                         !.Genre = <<"B">>],
      [KaggleBase EXCEPT !.Series_Title = <<"M">>, !.Runtime = <<"m", "i", "n">>],
      [KaggleBase EXCEPT !.Series_Title = <<"M">>, !.Gross = NA,
                         !.Meta_score = <<"8", ".", "5">>,
                         !.Released_Year = <<"0", "0", "0", "0">>,
                         !.No_of_Votes = <<"x">>, !.IMDB_Rating = <<"x">>,
                         !.Runtime = <<"9">>],
      [KaggleBase EXCEPT !.Series_Title = <<>>, !.Director = <<>>] }

\* The Kaggle files: the header line alone, or a first data row (one that
\* repeats the header, or an ordinary one) and the rows after it.
KaggleFiles ==
    {<<>>} \cup {<<first>> \o rest : first \in {KaggleHeader, KaggleBase},
                                     rest \in SeqsUpTo(KaggleRows, MaxKaggleRows)}

DefaultPersons == <<[Name |-> <<"P">>, CastID |-> <<"7">>, Gender |-> <<"1">>]>>

DefaultMovies == <<MovieBase>>

DefaultRatings == <<RatingBase>>

DefaultKaggle == <<KaggleHeader, KaggleBase>>

Scenario(p, m, r, k) == [persons |-> p, movies |-> m, ratings |-> r, kaggle |-> k]

MovieScenarios ==
    {Scenario(DefaultPersons, m, DefaultRatings, DefaultKaggle) :
        m \in SeqsUpTo(MovieRows, MaxRows)}

RatingScenarios ==
    {Scenario(DefaultPersons, DefaultMovies, r, DefaultKaggle) :
        r \in SeqsUpTo(RatingRows, MaxRows)}

PersonScenarios ==
    {Scenario(p, DefaultMovies, DefaultRatings, DefaultKaggle) :
        p \in SeqsUpTo(PersonRows, MaxRows)}

\* The movies file of the Kaggle scenarios: one movie, with id 2.
KaggleMovies == <<[MovieBase EXCEPT !.MovieID = <<"2">>]>>

KaggleScenarios ==
    {Scenario(DefaultPersons, m, <<>>, k) :
        m \in {<<>>, KaggleMovies}, k \in KaggleFiles}

\* A database file an earlier run left behind.
OldDb ==
    [EmptyDb EXCEPT !.movie =
        Put(<<>>, 5,
            [ original_language_code |-> None, original_title |-> Some(<<"O">>),
              english_title |-> None, budget |-> None, revenue |-> None,
              homepage |-> None, runtime |-> None, release_date |-> None ]
            @@ KaggleColumnsNull)]

\* -------------------------------------------------------------------- main
Init ==
    /\ variant \in {"scripts", "basic"}
    /\ foreign_keys \in BOOLEAN
    /\ \E sc \in MovieScenarios \cup RatingScenarios \cup PersonScenarios
                 \cup (IF variant = "scripts" THEN KaggleScenarios ELSE {}) :
          /\ persons_csv = sc.persons
          /\ movies_csv = sc.movies
          /\ ratings_csv = sc.ratings
          /\ kaggle_csv = IF variant = "scripts" THEN sc.kaggle ELSE <<>>
    /\ pc = "connect"
    /\ i = 0
    /\ reg = EmptyReg
    /\ db \in {EmptyDb, OldDb}
    /\ committed = db
    /\ exc = "none"
    /\ closes = 0
    /\ run = 1
    /\ first_db = EmptyDb

\* A main() that prints what a stage raised and goes on with the next.
Land_Continues(st, next_pc, next_i) ==
    /\ db' = st.db
    /\ committed' = st.committed
    /\ exc' = st.exc
    /\ pc' = next_pc
    /\ i' = next_i

\* The state a statement sequence leaves: the next position when nothing
\* was raised, the way out of main() when something was.
Land(st, next_pc, next_i) ==
    /\ db' = st.db
    /\ committed' = st.committed
    /\ exc' = st.exc
    /\ pc' = IF st.exc = "none" THEN next_pc ELSE "failed"
    /\ i' = IF st.exc = "none" THEN next_i ELSE i

Here == Session(db, committed)

\* sqlite3.connect and the PRAGMA.
main_connect ==
    /\ pc = "connect"
    /\ pc' = "create_tables"
    /\ UNCHANGED <<inputs, i, reg, db, committed, exc, closes, run, first_db>>

\* create_tables: the schema script drops and recreates every table.  When
\* the script fails scripts/load_movie_data.py exits, load_movie_data.py
\* prints the error and goes on.
create_tables ==
    /\ pc = "create_tables"
    /\ \E ok \in BOOLEAN :
          IF ok
          THEN Land(Commit(Session(EmptyDb, committed)), "persons", 0)
          ELSE IF variant = "scripts"
          THEN Land(Raise(Here, "SystemExit"), "persons", 0)
          ELSE Land(Here, "persons", 0)
    /\ UNCHANGED <<inputs, reg, closes, run, first_db>>

\* load_original_persons (scripts/) or load_persons (basic): the whole
\* function.  requests.get may fail.
load_persons_stage ==
    /\ pc = "persons"
    /\ \E ok \in BOOLEAN :
          IF ~ok THEN Land(Raise(Here, "RequestException"), "movies", 0)
          ELSE IF variant = "scripts"
          THEN \E order \in IterationOrders(db, "person", PersonNames(persons_csv)) :
                  Land(load_named(Here, "person", order), "movies", 0)
          ELSE Land(Commit(InsertPersonRows(Here, persons_csv)), "movies", 0)
    /\ UNCHANGED <<inputs, reg, closes, run, first_db>>

\* load_movies up to the first pass: requests.get may fail.
load_movies_fetch ==
    /\ pc = "movies"
    /\ \E ok \in BOOLEAN :
          IF ok THEN Land(Here, "movies_pass1", 0)
          ELSE Land(Raise(Here, "RequestException"), "movies_pass1", 0)
    /\ reg' = EmptyReg
    /\ UNCHANGED <<inputs, closes, run, first_db>>

\* A first pass that stores the genres of a row as it reads it.
load_movies_pass1_Eager ==
    /\ pc = "movies_pass1"
    /\ i < Len(movies_csv)
    /\ reg' = CollectMovieRow(reg, movies_csv[i + 1])
    /\ Land(InsertAllNamed(Here, "genre",
                           Entries(Cell(movies_csv[i + 1], "Genres"), "|")),
            "movies_pass1", i + 1)
    /\ UNCHANGED <<inputs, closes, run, first_db>>

\* One row of the first pass.
load_movies_pass1 ==
    /\ pc = "movies_pass1"
    /\ i < Len(movies_csv)
    /\ reg' = CollectMovieRow(reg, movies_csv[i + 1])
    /\ i' = i + 1
    /\ UNCHANGED <<inputs, pc, db, committed, exc, closes, run, first_db>>

\* The four load_* calls between the passes, each with its commit.
load_movies_flush ==
    /\ pc = "movies_pass1"
    /\ i = Len(movies_csv)
    /\ \E genres \in IterationOrders(db, "genre", reg.genres_set),
          companies \in IterationOrders(db, "production_company", reg.companies_set) :
          Land(load_named(
                 load_named(
                   load_countries(load_languages(Here, reg.languages_dict),
                                  reg.countries_dict),
                   "genre", genres),
                 "production_company", companies),
               "movies_pass2", 0)
    /\ UNCHANGED <<inputs, reg, closes, run, first_db>>

\* A second pass that commits after every row.
load_movies_pass2_CommitsRow ==
    /\ pc = "movies_pass2"
    /\ i < Len(movies_csv)
    /\ Land(Commit(InsertMovieRow(Here, movies_csv[i + 1])),
            "movies_pass2", i + 1)
    /\ UNCHANGED <<inputs, reg, closes, run, first_db>>

\* One row of the second pass.
load_movies_pass2 ==
    /\ pc = "movies_pass2"
    /\ i < Len(movies_csv)
    /\ Land(InsertMovieRow(Here, movies_csv[i + 1]), "movies_pass2", i + 1)
    /\ UNCHANGED <<inputs, reg, closes, run, first_db>>

\* A main() that calls load_kaggle_data right after load_movies.
load_movies_commit_SkipsRatings ==
    /\ pc = "movies_pass2"
    /\ i = Len(movies_csv)
    /\ Land(Commit(Here), "kaggle", 0)
    /\ UNCHANGED <<inputs, reg, closes, run, first_db>>

\* A load_movies that ends without its conn.commit().
load_movies_commit_NoCommit ==
    /\ pc = "movies_pass2"
    /\ i = Len(movies_csv)
    /\ Land(Here, "ratings", 0)
    /\ UNCHANGED <<inputs, reg, closes, run, first_db>>

\* conn.commit() at the end of load_movies.
load_movies_commit ==
    /\ pc = "movies_pass2"
    /\ i = Len(movies_csv)
    /\ Land(Commit(Here), "ratings", 0)
    /\ UNCHANGED <<inputs, reg, closes, run, first_db>>

\* load_ratings up to its loop: requests.get may fail.
load_ratings_fetch ==
    /\ pc = "ratings"
    /\ \E ok \in BOOLEAN :
          IF ok THEN Land(Here, "ratings_rows", 0)
          ELSE Land(Raise(Here, "RequestException"), "ratings_rows", 0)
    /\ UNCHANGED <<inputs, reg, closes, run, first_db>>

\* One row of load_ratings.
load_ratings_row ==
    /\ pc = "ratings_rows"
    /\ i < Len(ratings_csv)
    /\ Land(InsertRatingRow(Here, ratings_csv[i + 1]), "ratings_rows", i + 1)
    /\ UNCHANGED <<inputs, reg, closes, run, first_db>>

\* conn.commit() at the end of load_ratings; load_movie_data.py is done then.
load_ratings_commit ==
    /\ pc = "ratings_rows"
    /\ i = Len(ratings_csv)
    /\ Land(Commit(Here), IF variant = "scripts" THEN "kaggle" ELSE "done", 0)
    /\ UNCHANGED <<inputs, reg, closes, run, first_db>>

\* load_kaggle_data up to the first pass: the file may be missing.
load_kaggle_open ==
    /\ pc = "kaggle"
    /\ \E exists \in BOOLEAN :
          IF exists THEN Land(Here, "kaggle_pass1", 0)
          ELSE Land(Raise(Here, "SystemExit"), "kaggle_pass1", 0)
    /\ reg' = EmptyReg
    /\ UNCHANGED <<inputs, closes, run, first_db>>

\* One row of the first pass.
load_kaggle_pass1 ==
    /\ pc = "kaggle_pass1"
    /\ i < Len(kaggle_csv)
    /\ reg' = CollectKaggleRow(reg, kaggle_csv[i + 1])
    /\ i' = i + 1
    /\ UNCHANGED <<inputs, pc, db, committed, exc, closes, run, first_db>>

\* The three load_* calls between the passes, each with its commit; then
\* f.seek(0), next(f) and the new reader, which consumes the first data row
\* as its header.
load_kaggle_flush ==
    /\ pc = "kaggle_pass1"
    /\ i = Len(kaggle_csv)
    /\ \E directors \in IterationOrders(db, "director", reg.directors_set),
          genres \in IterationOrders(db, "genre", reg.genres_set),
          actors \in IterationOrders(db, "person", reg.actors_set) :
          Land(load_named(
                 load_named(load_named(Here, "director", directors),
                            "genre", genres),
                 "person", actors),
               "kaggle_pass2", IF Len(kaggle_csv) > 0 THEN 1 ELSE 0)
    /\ UNCHANGED <<inputs, reg, closes, run, first_db>>

\* One row of the second pass.
load_kaggle_pass2 ==
    /\ pc = "kaggle_pass2"
    /\ i < Len(kaggle_csv)
    /\ Land(InsertKaggleRow(Here, kaggle_csv[1], kaggle_csv[i + 1]),
            "kaggle_pass2", i + 1)
    /\ UNCHANGED <<inputs, reg, closes, run, first_db>>

\* conn.commit() at the end of load_kaggle_data.
load_kaggle_commit ==
    /\ pc = "kaggle_pass2"
    /\ i = Len(kaggle_csv)
    /\ Land(Commit(Here), "done", 0)
    /\ UNCHANGED <<inputs, reg, closes, run, first_db>>

\* A main() that closes the connection after the last stage and in its
\* except clause only: the exit of sys.exit(1) passes it by.
main_close_NoFinally ==
    /\ \/ pc = "done"
       \/ pc = "failed" /\ exc # "SystemExit"
    /\ pc' = "closed"
    /\ db' = committed
    /\ closes' = closes + 1
    /\ UNCHANGED <<inputs, i, reg, committed, exc, run, first_db>>

\* The finally clause of main(): conn.close().  What was not committed is
\* rolled back.
main_close ==
    /\ pc \in {"done", "failed"}
    /\ pc' = "closed"
    /\ db' = committed
    /\ closes' = closes + 1
    /\ UNCHANGED <<inputs, i, reg, committed, exc, run, first_db>>

Next ==
    \/ main_connect
    \/ create_tables
    \/ load_persons_stage
    \/ load_movies_fetch
    \/ load_movies_pass1
    \/ load_movies_flush
    \/ load_movies_pass2
    \/ load_movies_commit
    \/ load_ratings_fetch
    \/ load_ratings_row
    \/ load_ratings_commit
    \/ load_kaggle_open
    \/ load_kaggle_pass1
    \/ load_kaggle_flush
    \/ load_kaggle_pass2
    \/ load_kaggle_commit
    \/ main_close

Spec == Init /\ [][Next]_vars

\* The steps of main() outside the loops over the rows of a file.
StageSteps ==
    \/ main_connect
    \/ create_tables
    \/ load_persons_stage
    \/ load_movies_fetch
    \/ load_movies_commit
    \/ load_ratings_fetch
    \/ load_ratings_commit
    \/ load_kaggle_open
    \/ load_kaggle_commit
    \/ main_close

\* The steps of the loops over the rows of a file and the flushes between
\* two loops.
LoopSteps ==
    \/ load_movies_pass1
    \/ load_movies_flush
    \/ load_movies_pass2
    \/ load_ratings_row
    \/ load_kaggle_pass1
    \/ load_kaggle_flush
    \/ load_kaggle_pass2

\* The guards of LoopSteps: a loop has a row left, or a first loop has
\* ended and its flush is due.  Past its guard each of these steps is total.
LoopStepDue ==
    \/ pc = "movies_pass1" /\ i <= Len(movies_csv)
    \/ pc = "movies_pass2" /\ i < Len(movies_csv)
    \/ pc = "ratings_rows" /\ i < Len(ratings_csv)
    \/ pc = "kaggle_pass1" /\ i <= Len(kaggle_csv)
    \/ pc = "kaggle_pass2" /\ i < Len(kaggle_csv)

\* main() is one thread that runs its statements one after the other:
\* while a step is left to take, one is taken.  For the loop steps weak
\* fairness is written out with their guards for the enabling condition.
SpecFair ==
    /\ Spec
    /\ WF_vars(StageSteps)
    /\ ([]<>~LoopStepDue \/ []<><<LoopSteps>>_vars)

\* ---------------------------------------------------------------- two runs
\* main() is started again on the same files, once a first run has ended
\* without an exception; what that run left in the tables is remembered.
rerun ==
    /\ pc = "closed"
    /\ run = 1
    /\ exc = "none"
    /\ first_db' = db
    /\ run' = 2
    /\ pc' = "connect"
    /\ i' = 0
    /\ reg' = EmptyReg
    /\ closes' = 0
    /\ UNCHANGED <<inputs, db, committed, exc>>

NextTwice == Next \/ rerun

\* The first run starts on a database file with empty tables; the files hold
\* at most MaxRowsTwice rows (the Kaggle file one more, its first data row).
InitTwice ==
    /\ Init
    /\ db = EmptyDb
    /\ Len(persons_csv) <= MaxRowsTwice
    /\ Len(movies_csv) <= MaxRowsTwice
    /\ Len(ratings_csv) <= MaxRowsTwice
    /\ Len(kaggle_csv) <= MaxRowsTwice + 1

SpecTwice == InitTwice /\ [][NextTwice]_vars

\* ------------------------------------------------------------------ claims
\* The target table of each join table.
JoinTarget ==
    [ movie_genre |-> "genre", movie_production_company |-> "production_company",
      production_country |-> "country", movie_spoken_language |-> "language",
      movie_director |-> "director", movie_cast |-> "person" ]

\* C1: in every state a run reaches, every row of a join table names a movie
\* id the movie table holds and a key its target reference table holds.
C1_ReferentialIntegrity ==
    \A t \in DOMAIN JoinTarget : \A r \in db[t] :
        r[1] \in DOMAIN db.movie /\ r[2] \in Keys(db, JoinTarget[t])

\* The title pass 2 reads from the row it is about to process.
NextKaggleTitle == Get2(kaggle_csv[1], kaggle_csv[i + 1], "Series_Title")

\* C2: a Kaggle row whose title a stored movie already has as its title is
\* skipped: the step changes no table, raises nothing and goes on to the next
\* row.
C2_NoDuplicateTitle ==
    [][(pc = "kaggle_pass2" /\ i < Len(kaggle_csv)
            /\ TitleExists(db, NextKaggleTitle))
        => (db' = db /\ exc' = "none" /\ pc' = "kaggle_pass2" /\ i' = i + 1)]_vars

\* The movie ids stored under a title.
IdsOfTitle(d, title) ==
    {m \in DOMAIN d.movie : d.movie[m].original_title = Some(title)}

\* C2 witness: the merge has gone through two rows that carry one title, the
\* second of them just now, and the title is stored once, for the first.
C2_Witness ==
    /\ pc = "kaggle_pass2" /\ i = 3
    /\ kaggle_csv[2].Series_Title = kaggle_csv[3].Series_Title
    /\ kaggle_csv[2] # kaggle_csv[3]
    /\ Cardinality(IdsOfTitle(db, Strip(kaggle_csv[3].Series_Title))) = 1
    /\ \E m \in DOMAIN db.movie, g \in Keys(db, "director") :
          <<m, g>> \in db.movie_director

\* C3: a Kaggle row gets the id one more than the largest movie id stored
\* just before it is written, or 1 when no movie is stored: a step of pass 2
\* adds no other id, and it adds that one, under the row's title, when the
\* title is new and nothing is raised.
C3_NextIdIsMaxPlusOne ==
    [][(pc = "kaggle_pass2" /\ i < Len(kaggle_csv))
        => LET old == DOMAIN db.movie
               new == DOMAIN db'.movie \ old
               expect == IF old = {} THEN 1 ELSE MaxOf(old) + 1
           IN  /\ new \subseteq {expect}
               /\ \A m \in old : db'.movie[m] = db.movie[m]
               /\ (/\ NextKaggleTitle # <<>>
                   /\ ~TitleExists(db, NextKaggleTitle)
                   /\ exc' = "none")
                  => /\ new = {expect}
                     /\ db'.movie[expect].original_title = Some(NextKaggleTitle)
       ]_vars

\* C3 witness: the merge found the movie with id 2 and has given two new
\* titles the ids 3 and 4, leaving 1 unused.
C3_Witness ==
    /\ pc = "kaggle_pass2" /\ i = 3
    /\ DOMAIN db.movie = {2, 3, 4}
    /\ db.movie[3].original_title = Some(Strip(kaggle_csv[2].Series_Title))
    /\ db.movie[4].original_title = Some(Strip(kaggle_csv[3].Series_Title))

\* C4: a second run on the same files, after a first run that ended without
\* an exception, leaves the tables as the first run left them.
C4_RerunSameTables ==
    (run = 2 /\ pc = "closed" /\ exc = "none") => db = first_db

\* The registrations pass 1 makes for a coded cell, in order, each a pair of
\* code and label, read off the cell's text.
CodedEvents(cell) ==
    LET kept == SelectSeq(Entries(cell, "|"), LAMBDA e : Contains(e, <<"-">>))
    IN  [k \in 1..Len(kept) |-> <<Before(kept[k], "-"), Some(After(kept[k], "-"))>>]

OriginalEvents(ol) ==
    IF ol = <<>> THEN <<>>
    ELSE IF Contains(ol, <<"-">>) THEN << <<Before(ol, "-"), Some(After(ol, "-"))>> >>
    ELSE << <<ol, None>> >>

RECURSIVE LanguageEvents(_)
LanguageEvents(rows) ==
    IF rows = <<>> THEN <<>>
    ELSE OriginalEvents(Cell(Head(rows), "OriginalLanguage"))
         \o CodedEvents(Cell(Head(rows), "SpokenLanguages"))
         \o LanguageEvents(Tail(rows))

RECURSIVE CountryEvents(_)
CountryEvents(rows) ==
    IF rows = <<>> THEN <<>>
    ELSE CodedEvents(Cell(Head(rows), "ProductionCountries"))
         \o CountryEvents(Tail(rows))

\* The label of the first / of the last registration of a code.
FirstLabel(events, code) ==
    LET hits == {k \in 1..Len(events) : events[k][1] = code}
    IN  events[CHOOSE k \in hits : \A h \in hits : k <= h][2]

LastLabel(events, code) ==
    LET hits == {k \in 1..Len(events) : events[k][1] = code}
    IN  events[MaxOf(hits)][2]

\* The name a label is stored under.
StoredLabel(label) ==
    IF label \in {None, Some(<<>>)} THEN Unknown ELSE label[1]

\* Every code registered is in the registry with the label pick chooses, and
\* a code that is not blank and was not stored is stored under that label.
KeepsLabel(dict, before, after, events, pick(_, _)) ==
    \A k \in 1..Len(events) :
        LET code == events[k][1]
            label == pick(events, code)
        IN  /\ code \in DOMAIN dict
            /\ dict[code] = label
            /\ (code # <<>> /\ code \notin DOMAIN before)
                  => (code \in DOMAIN after /\ after[code] = StoredLabel(label))

\* The step that flushes the registries of load_movies.
MoviesFlushStep == pc = "movies_pass1" /\ pc' = "movies_pass2"

NextMovieRow == movies_csv[i + 1]

NextRatingRow == ratings_csv[i + 1]

NextKaggleRow == kaggle_csv[i + 1]

\* The step went on to the next row of the same loop.
GoesOn == exc' = "none" /\ pc' = pc /\ i' = i + 1

\* C6: a movies row whose MovieID is not a number is skipped in pass 2: the
\* step writes nothing, raises nothing and goes on to the next row.
C6_NonNumericIdSkipped ==
    [][(pc = "movies_pass2" /\ i < Len(movies_csv)
            /\ ~IsDecimal(Strip(NextMovieRow.MovieID)))
        => (db' = db /\ GoesOn)]_vars

\* C7: a movies row with a numeric MovieID is written in pass 2 whatever its
\* budget, revenue, runtime and release date hold: no ValueError ends the
\* load, and when nothing else does the movie is stored, a field that does
\* not parse absent in a row written now, and the loop goes on.
C7_UnparsableFieldsAbsent ==
    [][(pc = "movies_pass2" /\ i < Len(movies_csv)
            /\ IsDecimal(Strip(NextMovieRow.MovieID)))
        => LET row == NextMovieRow
               movie_id == ToInt(Strip(row.MovieID))
           IN  /\ exc' # "ValueError"
               /\ exc' = "none"
                    => /\ GoesOn
                       /\ movie_id \in DOMAIN db'.movie
                       /\ movie_id \notin DOMAIN db.movie
                            => LET rec == db'.movie[movie_id] IN
                               /\ FloatRaises(row.Budget) => rec.budget = None
                               /\ FloatRaises(row.Revenue) => rec.revenue = None
                               /\ IntRaises(row.Runtime) => rec.runtime = None
                               /\ ~IsDate(Strip(row.ReleaseDate))
                                    => rec.release_date = None
       ]_vars

\* C8: a ratings row is written exactly when its user id and its movie id
\* are numbers and its rating is not blank; any other row is skipped, the
\* step going on to the next row; no ValueError ends the stage; a date that
\* does not parse is stored as absent.
C8_RatingWrittenWhenValid ==
    [][(pc = "ratings_rows" /\ i < Len(ratings_csv))
        => LET row == NextRatingRow
               valid == /\ IsDecimal(Strip(row.UserID))
                        /\ IsDecimal(Strip(row.MovieID))
                        /\ Strip(row.Rating) # <<>>
               key == <<ToInt(Strip(row.UserID)), ToInt(Strip(row.MovieID))>>
           IN  /\ exc' # "ValueError"
               /\ ~valid => (db' = db /\ GoesOn)
               /\ (valid /\ exc' = "none")
                    => /\ GoesOn
                       /\ key[1] \in db'.user
                       /\ key \in DOMAIN db'.rating
                       /\ (key \notin DOMAIN db.rating /\ ~IsDate(Strip(row.Date)))
                            => db'.rating[key].rating_date = None
       ]_vars

\* C9: a Kaggle row with a new title is written in pass 2 whatever its
\* other cells hold: no ValueError leaves the row, and the movie is stored,
\* its runtime absent when the cell holds "min" and no number and its gross
\* revenue absent when the cell holds "NA".
C9_MalformedKaggleFieldsAbsent ==
    [][(pc = "kaggle_pass2" /\ i < Len(kaggle_csv)
            /\ NextKaggleTitle # <<>> /\ ~TitleExists(db, NextKaggleTitle))
        => LET get(col) == Get2(kaggle_csv[1], NextKaggleRow, col)
           IN  /\ exc' # "ValueError"
               /\ exc' = "none"
                    => /\ GoesOn
                       /\ \E m \in DOMAIN db'.movie \ DOMAIN db.movie :
                            LET rec == db'.movie[m] IN
                            /\ rec.original_title = Some(NextKaggleTitle)
                            /\ ~IsDecimal(Strip(Remove(get("Runtime"), Min)))
                                 => rec.runtime = None
                            /\ get("Gross") = NA => rec.gross_revenue = None
       ]_vars

\* The names of a list that no row of the target table carries.
Unresolved(d, target, names) ==
    {n \in Range(names) : n \notin DOMAIN d[target]}

\* The join rows of a movie for the names of a list the target table holds.
Resolved(d, target, movie_id, names) ==
    {<<movie_id, d[target][n]>> : n \in Range(names) \ Unresolved(d, target, names)}

\* What a step that wrote a movie's row did for one list of names: the join
\* row of every name found is stored, and no other join row is new.
LinksResolved(join, target, movie_id, names) ==
    /\ Resolved(db, target, movie_id, names) \subseteq db'[join]
    /\ db'[join] \ db[join] \subseteq Resolved(db, target, movie_id, names)

\* The lists of names a movies row and a Kaggle row carry.
MovieGenres(row) == Entries(Cell(row, "Genres"), "|")

MovieCompanies(row) == Entries(Cell(row, "ProductionCompanies"), "|")

KaggleGenres(row) == GenreList(Get2(kaggle_csv[1], row, "Genre"))

KaggleDirector(row) ==
    SelectSeq(<<Get2(kaggle_csv[1], row, "Director")>>, LAMBDA x : x # <<>>)

KaggleStars(row) ==
    LET get(col) == Get2(kaggle_csv[1], row, col)
    IN  Stars(get("Star1"), get("Star2"), get("Star3"), get("Star4"))

\* The only exception a row whose fields were read can raise: a foreign key
\* the schema declares and an insert breaks.
OnlyStorageRaises ==
    exc' = "none" \/ (foreign_keys /\ exc' = "IntegrityError")

\* C10: when a genre, company, director or person a row names is not found,
\* nothing is raised for it; the movie's row is written, the join row of
\* every name that is found is written, none is written for a name that is
\* not, and the loop goes on to the next row.
C10_SkipOnUnresolved ==
    [][/\ (/\ pc = "movies_pass2" /\ i < Len(movies_csv)
           /\ ~SkipsMovieRow(NextMovieRow) /\ ~MovieRowRaises(NextMovieRow)
           /\ Unresolved(db, "genre", MovieGenres(NextMovieRow))
                \cup Unresolved(db, "production_company",
                                MovieCompanies(NextMovieRow)) # {})
          => LET row == NextMovieRow
                 movie_id == ToInt(Strip(row.MovieID))
             IN  /\ OnlyStorageRaises
                 /\ exc' = "none"
                      => /\ GoesOn
                         /\ movie_id \in DOMAIN db'.movie
                         /\ LinksResolved("movie_genre", "genre", movie_id,
                                          MovieGenres(row))
                         /\ LinksResolved("movie_production_company",
                                          "production_company", movie_id,
                                          MovieCompanies(row))
       /\ (/\ pc = "kaggle_pass2" /\ i < Len(kaggle_csv)
           /\ ~SkipsKaggleRow(db, kaggle_csv[1], NextKaggleRow)
           /\ ~KaggleRowRaises(kaggle_csv[1], NextKaggleRow)
           /\ Unresolved(db, "genre", KaggleGenres(NextKaggleRow))
                \cup Unresolved(db, "director", KaggleDirector(NextKaggleRow))
                \cup Unresolved(db, "person", KaggleStars(NextKaggleRow)) # {})
          => LET row == NextKaggleRow IN
             /\ OnlyStorageRaises
             /\ exc' = "none"
                  => /\ GoesOn
                     /\ \E m \in DOMAIN db'.movie \ DOMAIN db.movie :
                          /\ LinksResolved("movie_genre", "genre", m,
                                           KaggleGenres(row))
                          /\ LinksResolved("movie_director", "director", m,
                                           KaggleDirector(row))
                          /\ LinksResolved("movie_cast", "person", m,
                                           KaggleStars(row))
      ]_vars

\* C10 witness: pass 2 of load_movies has gone through a row that names a
\* genre not found between two that are: the movie is stored, with the join
\* rows of both genres found and no other.
C10_Witness ==
    /\ pc = "movies_pass2" /\ i >= 1 /\ exc = "none"
    /\ LET row == movies_csv[i]
           movie_id == ToInt(Strip(row.MovieID))
           names == MovieGenres(row)
       IN  /\ Len(names) = 3
           /\ Unresolved(db, "genre", names) = {names[2]}
           /\ movie_id \in DOMAIN db.movie
           /\ {r \in db.movie_genre : r[1] = movie_id}
                = {<<movie_id, db.genre[names[1]]>>, <<movie_id, db.genre[names[3]]>>}

\* C11: a ratings row whose movie id the movie table does not hold is not
\* written: the step leaves the rating table as it is, raises nothing and
\* goes on to the next row.
C11_RatingOfMissingMovieDropped ==
    [][(pc = "ratings_rows" /\ i < Len(ratings_csv)
            /\ IsDecimal(Strip(NextRatingRow.MovieID))
            /\ ToInt(Strip(NextRatingRow.MovieID)) \notin DOMAIN db.movie)
        => (db'.rating = db.rating /\ GoesOn)]_vars

\* The positions of main(), in the order of the program text, and the stage
\* each belongs to.
Positions ==
    << "connect", "create_tables", "persons", "movies", "movies_pass1",
       "movies_pass2", "ratings", "ratings_rows", "kaggle", "kaggle_pass1",
       "kaggle_pass2", "done" >>

Pos(p) == CHOOSE k \in 1..Len(Positions) : Positions[k] = p

StageOf(p) ==
    CASE p = "connect" -> 0
      [] p = "create_tables" -> 1
      [] p = "persons" -> 2
      [] p \in {"movies", "movies_pass1", "movies_pass2"} -> 3
      [] p \in {"ratings", "ratings_rows"} -> 4
      [] p \in {"kaggle", "kaggle_pass1", "kaggle_pass2"} -> 5
      [] p = "done" -> 6
      [] p = "failed" -> 7
      [] p = "closed" -> 8

\* The loop at a position has consumed its whole file.
FileConsumed ==
    CASE pc \in {"movies_pass1", "movies_pass2"} -> i = Len(movies_csv)
      [] pc = "ratings_rows" -> i = Len(ratings_csv)
      [] pc \in {"kaggle_pass1", "kaggle_pass2"} -> i = Len(kaggle_csv)
      [] OTHER -> TRUE

\* C12: the stages run in the order schema reset, persons, movies, ratings,
\* Kaggle merge: a step stays at its position or moves to the next one, the
\* next one only with nothing raised and the file at hand consumed; the run
\* is closed after the last stage or a failure, and nothing runs after that.
\* (load_movie_data.py has no Kaggle merge: it is done after the ratings.)
C12_StagesInOrder ==
    [][/\ pc # "closed"
       /\ pc \in {"done", "failed"} => pc' = "closed"
       /\ (pc \notin {"done", "failed"} /\ pc' # "failed")
            => /\ pc' # "closed"
               /\ \/ pc' = pc
                  \/ /\ exc' = "none" /\ FileConsumed
                     /\ \/ Pos(pc') = Pos(pc) + 1
                        \/ /\ variant = "basic" /\ pc = "ratings_rows"
                           /\ pc' = "done"
      ]_vars

\* C12 witness: scripts/load_movie_data.py has gone through every stage:
\* persons, a movie, a rating and the directors of the Kaggle file are
\* stored.
C12_Witness ==
    /\ pc = "done" /\ variant = "scripts" /\ exc = "none"
    /\ db.person # <<>> /\ db.movie # <<>> /\ db.rating # <<>>
    /\ db.director # <<>>

\* The tables that are sets of rows; the others map a key to a row.
SetTables == {"user"} \cup DOMAIN JoinTarget

\* Every row of old is a row of new.
RowsKept(old, new) ==
    \A t \in DOMAIN old :
        IF t \in SetTables THEN old[t] \subseteq new[t]
        ELSE /\ DOMAIN old[t] \subseteq DOMAIN new[t]
             /\ \A k \in DOMAIN old[t] : new[t][k] = old[t][k]

\* C13: a stage that ends has committed all it wrote; after the schema
\* reset a committed row stays committed whatever fails later; and the rows
\* left when the run is closed are the committed ones.
C13_CompletedStagesDurable ==
    [][/\ (StageOf(pc) \in 1..5 /\ StageOf(pc') \in 2..6
            /\ StageOf(pc') > StageOf(pc))
            => committed' = db'
       /\ StageOf(pc) >= 2 => RowsKept(committed, committed')
       /\ pc' = "closed" => db' = committed
      ]_vars

\* C13 witness: the Kaggle file was missing, the run was closed, and the
\* movies and ratings of the stages before are stored.
C13_Witness ==
    /\ pc = "closed" /\ exc = "SystemExit" /\ variant = "scripts"
    /\ db.movie # <<>> /\ db.rating # <<>>
    /\ db = committed

\* C14: a schema script that fails ends the run: a create_tables step that
\* leaves the old tables in place writes nothing and is followed by no
\* loading stage.
C14_SchemaFailureFatal ==
    [][(pc = "create_tables" /\ db' # EmptyDb)
        => (pc' = "failed" /\ db' = db)]_vars

\* The step raised a failed download, or found the Kaggle file missing.
SourceFails ==
    /\ exc = "none"
    /\ \/ exc' = "RequestException"
       \/ pc = "kaggle" /\ exc' = "SystemExit"

\* C15: a download that fails, or a missing Kaggle file, ends the run: the
\* step writes nothing and leaves main() by the way out, after which the
\* connection is closed and nothing runs again.
C15_SourceFailureFatal ==
    [][/\ SourceFails => (db' = db /\ committed' = committed /\ pc' = "failed")
       /\ pc = "failed" => (pc' = "closed" /\ db' = committed /\ exc' = exc)
       /\ pc # "closed"
      ]_vars

\* C15 witness: the ratings could not be fetched: the run is closed with the
\* movies stored and no rating of a ratings file that has some.
C15_Witness ==
    /\ pc = "closed" /\ exc = "RequestException" /\ closes = 1
    /\ db.movie # <<>>
    /\ ratings_csv # <<>> /\ db.rating = <<>>

\* C16: after the Kaggle merge every data row of the file with a title that
\* is not blank has its title in the movie table.
C16_EveryKaggleTitleStored ==
    (pc = "done" /\ variant = "scripts" /\ exc = "none")
        => \A k \in 1..Len(kaggle_csv) :
              Strip(kaggle_csv[k].Series_Title) # <<>>
                  => TitleExists(db, Strip(kaggle_csv[k].Series_Title))

\* The reference tables whose rows get their id from the storage.
NamedTables == {"genre", "production_company", "director", "person"}

\* C17: once the tables are created, a name stored in a reference table
\* keeps its row and its id through every later flush and to the end of the
\* run, no two names share an id, and a join row stays as written while the
\* run goes on.
C17_OneIdPerName ==
    [][pc # "create_tables"
        => /\ \A t \in NamedTables :
                /\ \A name \in DOMAIN db[t] :
                      name \in DOMAIN db'[t] /\ db'[t][name] = db[t][name]
                /\ (t # "person" \/ variant = "scripts")
                      => \A a, b \in DOMAIN db'[t] :
                            db'[t][a] = db'[t][b] => a = b
           /\ pc' # "closed"
                => \A j \in DOMAIN JoinTarget : db[j] \subseteq db'[j]
      ]_vars

\* C17 witness: genre A was flushed by load_movies and again by the Kaggle
\* merge, which added genre B: A has the id of the first flush, and the
\* movie of the movies file and a movie of the Kaggle file both point at it.
C17_Witness ==
    /\ pc = "kaggle_pass2" /\ exc = "none"
    /\ Len(movies_csv) = 1
    /\ <<"A">> \in Range(MovieGenres(movies_csv[1]))
    /\ <<"A">> \in reg.genres_set /\ <<"B">> \in reg.genres_set
    /\ {<<"A">>, <<"B">>} \subseteq DOMAIN db.genre
    /\ db.genre[<<"A">>] = 1 /\ db.genre[<<"B">>] > 1
    /\ {<<2, 1>>, <<3, 1>>} \subseteq db.movie_genre

\* The tokens of a multi-valued cell as the claim has them: split on the
\* separator, each trimmed, the empty ones dropped.
Tokens(cell, sep) ==
    SelectSeq(StripAll(Split(cell, sep)), LAMBDA t : t # <<>>)

TokenSet(rows, col, sep) ==
    UNION {Range(Tokens(rows[k][col], sep)) : k \in 1..Len(rows)}

\* C18: when pass 1 has read the whole file, the genres and the companies
\* registered are the trimmed, non-empty tokens of the rows' cells, and the
\* country codes registered are those of the tokens that hold a '-'.
C18_TokensTrimmedNonEmpty ==
    /\ (pc = "movies_pass1" /\ i = Len(movies_csv))
         => /\ reg.genres_set = TokenSet(movies_csv, "Genres", "|")
            /\ reg.companies_set = TokenSet(movies_csv, "ProductionCompanies", "|")
            /\ DOMAIN reg.countries_dict =
                  {Before(t, "-") :
                     t \in {u \in TokenSet(movies_csv, "ProductionCountries", "|") :
                              Contains(u, <<"-">>)}}
    /\ (pc = "kaggle_pass1" /\ i = Len(kaggle_csv))
         => reg.genres_set = TokenSet(kaggle_csv, "Genre", ",")

\* The movie rows and the join rows of the tables.
FactsOf(d) == [t \in {"movie"} \cup DOMAIN JoinTarget |-> d[t]]

\* C19: a step of pass 1 writes nothing; pass 1 is left only with the whole
\* file read, by the flush, which writes no movie row and no join row; and
\* a movie row or a join row is written by a step of pass 2 only (they go
\* when the tables are recreated or the connection is closed).
C19_TwoPasses ==
    [][/\ (pc \in {"movies_pass1", "kaggle_pass1"} /\ pc' = pc)
            => (db' = db /\ committed' = committed)
       /\ (pc \in {"movies_pass1", "kaggle_pass1"} /\ pc' # pc)
            => /\ FileConsumed
               /\ pc' = (IF pc = "movies_pass1" THEN "movies_pass2"
                          ELSE "kaggle_pass2")
               /\ FactsOf(db') = FactsOf(db)
       /\ FactsOf(db') # FactsOf(db)
            => \/ pc \in {"create_tables", "movies_pass2", "kaggle_pass2"}
               \/ pc' = "closed"
      ]_vars

\* C19 witness: pass 1 of load_movies has read two rows and the registries
\* are flushed: genres are stored, no movie row and no join row is.
C19_Witness ==
    /\ pc = "movies_pass2" /\ i = 0 /\ Len(movies_csv) = 2
    /\ db.genre # <<>> /\ db.language # <<>>
    /\ db.movie = <<>> /\ db.movie_genre = {}

\* The entries of a coded cell that hold no '-' and are not empty.
Uncoded(cell) ==
    {e \in Range(Entries(cell, "|")) : e # <<>> /\ ~Contains(e, <<"-">>)}

\* C20: an entry of a language or country cell that holds no '-' is the
\* code: pass 1 has registered it, and the pass 2 step that writes the row
\* writes the movie's row for it in the join table (the code itself in the
\* movie's row for the original language).
C20_UncodedTokenIsCode ==
    [][(pc = "movies_pass2" /\ i < Len(movies_csv)
            /\ IsDecimal(Strip(NextMovieRow.MovieID)) /\ exc' = "none")
        => LET row == NextMovieRow
               movie_id == ToInt(Strip(row.MovieID))
               ol == Cell(row, "OriginalLanguage")
           IN  /\ \A c \in Uncoded(Cell(row, "ProductionCountries")) :
                     /\ c \in DOMAIN reg.countries_dict
                     /\ <<movie_id, c>> \in db'.production_country
               /\ \A c \in Uncoded(Cell(row, "SpokenLanguages")) :
                     /\ c \in DOMAIN reg.languages_dict
                     /\ <<movie_id, c>> \in db'.movie_spoken_language
               /\ (ol # <<>> /\ ~Contains(ol, <<"-">>))
                     => /\ ol \in DOMAIN reg.languages_dict
                        /\ movie_id \notin DOMAIN db.movie
                             => db'.movie[movie_id].original_language_code = Some(ol)
       ]_vars

\* What the flush of a code registry leaves in its table: every code that
\* is not empty is stored, under 'Unknown' when the registry holds None or
\* the empty text for it and the table did not hold the code.
FlushedCoded(dict, before, after) ==
    \A code \in DOMAIN dict \ {<<>>} :
        /\ code \in DOMAIN after
        /\ (dict[code] \in {None, Some(<<>>)} /\ code \notin DOMAIN before)
             => after[code] = Unknown

\* C21: the flush of load_movies stores every registered language and
\* country code that is not empty, with the label 'Unknown' when the label
\* is absent or empty; and no stored language or country row ever has an
\* empty code or an empty label.
C21_UnknownLabelNoBlankCode ==
    [][/\ MoviesFlushStep
            => /\ FlushedCoded(reg.languages_dict, db.language, db'.language)
               /\ FlushedCoded(reg.countries_dict, db.country, db'.country)
       /\ \A t \in {"language", "country"} :
             \A code \in DOMAIN db'[t] : code # <<>> /\ db'[t][code] # <<>>
      ]_vars

\* C21 witness: the registry held the empty code for a country and a
\* language without label; after the flush the language is 'Unknown' and
\* the empty code is not stored while another country is.
C21_Witness ==
    /\ pc = "movies_pass2" /\ i = 0
    /\ <<>> \in DOMAIN reg.countries_dict
    /\ <<"u">> \in DOMAIN db.country
    /\ <<>> \notin DOMAIN db.country
    /\ <<"e">> \in DOMAIN reg.languages_dict
    /\ reg.languages_dict[<<"e">>] \in {None, Some(<<>>)}
    /\ db.language[<<"e">>] = Unknown

\* The users the rating rows of the tables refer to.
RatingUsers(d) == {r[1] : r \in DOMAIN d.rating}

\* C22: a user row is written only by the step of load_ratings for a row
\* with a numeric user id, a numeric movie id and a rating, and it is that
\* row's user; every rating row's user is stored; and while no step has
\* raised every stored user has a rating row, as has every committed one
\* always (the row whose rating insert raises leaves its user in the open
\* transaction until the close rolls it back).
C22_LazyUser ==
    [][/\ ~(db'.user \subseteq db.user)
            => /\ pc = "ratings_rows" /\ i < Len(ratings_csv)
               /\ IsDecimal(Strip(NextRatingRow.UserID))
               /\ IsDecimal(Strip(NextRatingRow.MovieID))
               /\ Strip(NextRatingRow.Rating) # <<>>
               /\ db'.user = db.user \cup {ToInt(Strip(NextRatingRow.UserID))}
       /\ RatingUsers(db') \subseteq db'.user
       /\ pc' # "failed" => db'.user \subseteq RatingUsers(db')
       /\ committed'.user = RatingUsers(committed')
      ]_vars

\* C22 witness: two rating rows of two users are read, both users and both
\* ratings are stored.
C22_Witness ==
    /\ pc = "ratings_rows" /\ i = 2 /\ exc = "none"
    /\ db.user = {1, 2}
    /\ RatingUsers(db) = {1, 2}

\* A step inside one of the four loading stages.
InsideStage == StageOf(pc) \in 2..5 /\ StageOf(pc') = StageOf(pc)

\* The flush between the passes of load_movies or of the Kaggle merge.
FlushStep ==
    \/ pc = "movies_pass1" /\ pc' = "movies_pass2"
    \/ pc = "kaggle_pass1" /\ pc' = "kaggle_pass2"

\* The tables the flushes write.
RefTables ==
    {"language", "country", "genre", "production_company", "director", "person"}

\* An aborted stage commits nothing at the abort, and the close leaves what
\* was committed.
AbortKeepsCommitted ==
    /\ pc' = "failed" => committed' = committed
    /\ pc' = "closed" => db' = committed

\* C23 as stated: a stage commits once, at its end: no step inside a stage
\* commits, so a stage that aborts persists none of its rows.
C23_OneCommitPerStage ==
    [][/\ InsideStage => committed' = committed
       /\ AbortKeepsCommitted
      ]_vars

\* C23 amended: inside a stage only the flush between the passes commits,
\* and it commits rows of the reference tables only; no row step commits.
\* A stage that aborts persists the reference rows it flushed and none of
\* its movie, join, rating or user rows.
C23_CommitAtFlushAndEnd ==
    [][/\ InsideStage
            => \/ committed' = committed
               \/ /\ FlushStep
                  /\ committed' = db'
                  /\ \A t \in DOMAIN EmptyDb \ RefTables :
                        committed'[t] = committed[t]
       /\ AbortKeepsCommitted
      ]_vars

\* C23 witness: load_movies wrote the first row in pass 2 and raised on the
\* second; after the close the flushed genre is stored, no movie row and no
\* join row is.
C23_Witness ==
    /\ pc = "closed" /\ exc = "ValueError" /\ variant = "scripts"
    /\ Len(movies_csv) = 2 /\ i = 1
    /\ movies_csv[1] = MovieBase
    /\ db.genre # <<>>
    /\ db.movie = <<>> /\ db.movie_genre = {}
    /\ db = committed

\* C24: in load_movie_data.py the pass 2 step for a row whose other writes
\* raise nothing writes a movie_cast row with the movie id and the raw cast
\* id for every entry of its CastID cell, and raises nothing, whether the
\* person table holds the cast id or not.
C24_CastPassThrough ==
    [][(/\ variant = "basic" /\ pc = "movies_pass2" /\ i < Len(movies_csv)
        /\ InsertMovieRow(Here, [NextMovieRow EXCEPT !.CastID = <<>>]).exc = "none")
        => /\ exc' = "none"
           /\ \A c \in Range(Entries(NextMovieRow.CastID, "|")) :
                 <<ToInt(Strip(NextMovieRow.MovieID)), c>> \in db'.movie_cast
      ]_vars

\* The codes of the entries of a coded cell that pass 2 writes join rows
\* for.
CodesOf(cell) ==
    {Before(e, "-") : e \in {x \in Range(Entries(cell, "|")) : Contains(x, <<"-">>)}}

\* Every key the join rows of a movies row name with no lookup is stored.
KeysStored(row) ==
    /\ CodesOf(Cell(row, "ProductionCountries")) \subseteq DOMAIN db.country
    /\ CodesOf(Cell(row, "SpokenLanguages")) \subseteq DOMAIN db.language
    /\ variant = "basic"
         => Range(Entries(row.CastID, "|")) \subseteq DOMAIN db.person

\* C25: the pass 2 step for a movies row whose MovieID is stored already
\* leaves every movie row as it is and raises nothing for it; the join rows
\* stored stay, and the join rows of this row are written against the same
\* movie id.
C25_DuplicateMovieId ==
    [][(/\ pc = "movies_pass2" /\ i < Len(movies_csv)
        /\ ~SkipsMovieRow(NextMovieRow) /\ ~MovieRowRaises(NextMovieRow)
        /\ ToInt(Strip(NextMovieRow.MovieID)) \in DOMAIN db.movie)
        => LET row == NextMovieRow
               movie_id == ToInt(Strip(row.MovieID))
           IN  /\ db'.movie = db.movie
               /\ (~foreign_keys \/ KeysStored(row)) => exc' = "none"
               /\ exc' = "none"
                    => /\ GoesOn
                       /\ \A j \in DOMAIN JoinTarget : db[j] \subseteq db'[j]
                       /\ LinksResolved("movie_genre", "genre", movie_id,
                                        MovieGenres(row))
                       /\ LinksResolved("movie_production_company",
                                        "production_company", movie_id,
                                        MovieCompanies(row))
                       /\ \A c \in CodesOf(Cell(row, "ProductionCountries")) :
                             <<movie_id, c>> \in db'.production_country
                       /\ \A c \in CodesOf(Cell(row, "SpokenLanguages")) :
                             <<movie_id, c>> \in db'.movie_spoken_language
      ]_vars

\* C25 witness: two rows with the same MovieID and different attributes are
\* written: the movie row is that of the first, the company of the second
\* is joined to it next to the genre of the first.
C25_Witness ==
    /\ pc = "movies_pass2" /\ i = 2 /\ exc = "none" /\ Len(movies_csv) = 2
    /\ movies_csv[1].MovieID = <<"2">> /\ movies_csv[2].MovieID = <<"2">>
    /\ MovieRecord(movies_csv[1]) # MovieRecord(movies_csv[2])
    /\ db.movie[2] = MovieRecord(movies_csv[1])
    /\ movies_csv[1].ProductionCompanies = <<>>
    /\ <<"C">> \in DOMAIN db.production_company
    /\ <<2, db.production_company[<<"C">>]>> \in db.movie_production_company
    /\ <<"A">> \in DOMAIN db.genre
    /\ <<2, db.genre[<<"A">>]>> \in db.movie_genre

\* A stored movie has the title as its English title and not as its
\* original title.
EnglishTitleOnly(d, title) ==
    \E m \in DOMAIN d.movie :
        /\ d.movie[m].english_title = Some(title)
        /\ d.movie[m].original_title # Some(title)

\* C26: a pass 2 step of the Kaggle merge on a row whose title is the
\* English title of a stored movie and the original title of none does not
\* match: it stores a movie with that original title under the next id and
\* leaves every stored movie as it is.
C26_MatchOnOriginalTitleOnly ==
    [][(/\ pc = "kaggle_pass2" /\ i < Len(kaggle_csv)
        /\ NextKaggleTitle # <<>>
        /\ EnglishTitleOnly(db, NextKaggleTitle)
        /\ \A m \in DOMAIN db.movie :
              db.movie[m].original_title # Some(NextKaggleTitle)
        /\ ~KaggleRowRaises(kaggle_csv[1], NextKaggleRow))
        => LET movie_id == NextMovieId(db) IN
           /\ GoesOn
           /\ movie_id \notin DOMAIN db.movie
           /\ DOMAIN db'.movie = DOMAIN db.movie \cup {movie_id}
           /\ db'.movie[movie_id].original_title = Some(NextKaggleTitle)
           /\ \A m \in DOMAIN db.movie : db'.movie[m] = db.movie[m]
      ]_vars

\* C26 witness: load_movies stored movie 2 with the English title T and no
\* original title; the Kaggle row with the title T is stored as movie 3.
C26_Witness ==
    /\ pc = "kaggle_pass2" /\ i = 2 /\ exc = "none"
    /\ Strip(kaggle_csv[2].Series_Title) = <<"T">>
    /\ DOMAIN db.movie = {2, 3}
    /\ db.movie[2].english_title = Some(<<"T">>)
    /\ db.movie[2].original_title = None
    /\ db.movie[3].original_title = Some(<<"T">>)

\* C27: every run gets to the close of the connection, whatever ended the
\* stages; the connection is closed once, at that moment, and no step
\* follows the close.
C27_TerminatesClosedOnce ==
    /\ <>(pc = "closed")
    /\ [](closes = IF pc = "closed" THEN 1 ELSE 0)
    /\ [][pc # "closed"]_vars

\* C27 witness: the schema script failed in scripts/load_movie_data.py; the
\* exit closed the connection once and no file was loaded.
C27_Witness ==
    /\ pc = "closed" /\ exc = "SystemExit" /\ closes = 1
    /\ movies_csv # <<>>
    /\ db = OldDb

=============================================================================
